---- MODULE Spec2Model ----
(***************************************************************************)
(* A model of sensory (src/main.rs): the fold of sensor readings into a    *)
(* ledger of per-day statistics, and the report written from that ledger.  *)
(***************************************************************************)
EXTENDS Integers, Sequences, FiniteSets, TLC

(***************************************************************************)
(* f32.  A finite f32 is a dyadic rational n / 2^k, kept in lowest terms   *)
(* (n odd, or k = 0), so that two records are equal exactly when the       *)
(* floats are.  Every operation computes the exact result and rounds it    *)
(* once to a 24-bit significand, ties to even, as IEEE-754 binary32 does.  *)
(* NaN is the one non-finite value the inputs of the model can produce.    *)
(* The exponent range of f32 is never approached by the bounded values.    *)
(***************************************************************************)

F32_MANTISSA_DIGITS == 24

Pow2(i) == 2 ^ i

Abs(x) == IF x < 0 THEN -x ELSE x

Sign(x) == IF x < 0 THEN -1 ELSE 1

\* Lowest terms of n / 2^k: the largest power of two, up to 2^k, that
\* divides n is cancelled.
Norm(n, k) ==
    IF n = 0 THEN [nan |-> FALSE, n |-> 0, k |-> 0]
    ELSE LET j == CHOOSE j \in 0..k :
                     /\ n % Pow2(j) = 0
                     /\ j = k \/ n % Pow2(j + 1) # 0
         IN  [nan |-> FALSE, n |-> n \div Pow2(j), k |-> k - j]

NaN == [nan |-> TRUE, n |-> 0, k |-> 0]

IsNaN(x) == x.nan

\* The f32 of an integer literal small enough to be exact.
F(i) == [nan |-> FALSE, n |-> i, k |-> 0]

\* The f32 nearest to sgn * (a + f) / 2^k, where 0 <= f < 1 and sticky
\* says whether f > 0.  Either a has at most 24 digits and f = 0, or a has
\* at least 25 digits; shift is the number of digits beyond 24 (a is below
\* 2^31).
RoundF32(sgn, a, sticky, k) ==
    IF a < Pow2(F32_MANTISSA_DIGITS)
    THEN Norm(sgn * a, k)
    ELSE LET shift == CHOOSE s \in 1..7 : a \div Pow2(F32_MANTISSA_DIGITS + s - 1) = 1
             q     == a \div Pow2(shift)
             r     == a % Pow2(shift)
             half  == Pow2(shift - 1)
             up    == \/ r > half
                      \/ r = half /\ sticky
                      \/ r = half /\ ~sticky /\ q % 2 = 1
             m     == IF up THEN q + 1 ELSE q
         IN  IF k >= shift
             THEN Norm(sgn * m, k - shift)
             ELSE Norm(sgn * m * Pow2(shift - k), 0)

\* a + b in f32.
FAdd(a, b) ==
    IF IsNaN(a) \/ IsNaN(b) THEN NaN
    ELSE LET K == IF a.k > b.k THEN a.k ELSE b.k
             s == a.n * Pow2(K - a.k) + b.n * Pow2(K - b.k)
         IN  RoundF32(Sign(s), Abs(s), FALSE, K)

FNeg(a) == IF IsNaN(a) THEN NaN ELSE [a EXCEPT !.n = -a.n]

\* a - b in f32.
FSub(a, b) == FAdd(a, FNeg(b))

\* The least e with p * 2^e >= d * 2^24.
DivScale(p, d) ==
    CHOOSE e \in 0..30 :
        /\ p * Pow2(e) >= d * Pow2(F32_MANTISSA_DIGITS)
        /\ e = 0 \/ p * Pow2(e - 1) < d * Pow2(F32_MANTISSA_DIGITS)

\* a / b in f32, b finite and not zero.
FDiv(a, b) ==
    IF IsNaN(a) \/ IsNaN(b) THEN NaN
    ELSE IF a.n = 0 THEN F(0)
    ELSE LET p   == Abs(a.n) * Pow2(b.k)
             d   == Abs(b.n)
             e   == DivScale(p, d)
             num == p * Pow2(e)
         IN  RoundF32(Sign(a.n) * Sign(b.n), num \div d, num % d # 0, a.k + e)

\* f32::partial_cmp: "nan" stands for None.
PartialCmp(a, b) ==
    IF IsNaN(a) \/ IsNaN(b) THEN "nan"
    ELSE LET K == IF a.k > b.k THEN a.k ELSE b.k
             x == a.n * Pow2(K - a.k)
             y == b.n * Pow2(K - b.k)
         IN  IF x < y THEN "Less" ELSE IF x > y THEN "Greater" ELSE "Equal"

\* usize as f32, for the lengths the model reaches.
UsizeAsF32(len) == F(len)

(***************************************************************************)
(* Input text.  A numeric cell of a CSV row is a decimal literal           *)
(* digits / 10^scale, the literal NaN, or text that is no number.  A       *)
(* timestamp cell is "Y-M-D", optionally followed by a space and a time    *)
(* of day; ymd holds the "-"-separated parts that parse as integers.       *)
(***************************************************************************)

Dec(digits, scale) == [kind |-> "dec", digits |-> digits, scale |-> scale]

TxtNaN == [kind |-> "nan", digits |-> 0, scale |-> 0]

TxtBad == [kind |-> "bad", digits |-> 0, scale |-> 0]

Pow10(i) == 10 ^ i

\* str::parse::<f32>: Ok for a decimal literal and for "NaN".
ParsesF32(txt) == txt.kind # "bad"

\* The value of str::parse::<f32>: the f32 nearest to the decimal.  A
\* literal without fraction digits is its integer, exact below 2^24.
ParseF32(txt) ==
    IF txt.kind = "nan" THEN NaN
    ELSE IF txt.scale = 0 THEN F(txt.digits)
    ELSE FDiv(F(txt.digits), F(Pow10(txt.scale)))

Stamp(ymd, time) == [ymd |-> ymd, time |-> time]

\* parse_date_time succeeds when the date part has its three numbers.
ParsesDateTime(stamp) == Len(stamp.ymd) = 3

\* parse_date_time: the time of day is split off and discarded.
parse_date_time(stamp) == <<stamp.ymd[1], stamp.ymd[2], stamp.ymd[3]>>

\* NaiveDate::to_string, "YYYY-MM-DD".
DateToString(date) == <<date[1], "-", date[2], "-", date[3]>>

\* One item of csv::Reader::records(): Err for a row the reader rejects
\* (a row whose number of cells differs from the header's), else the cells.
CsvRow(stamp, temperature, humidity, dew_point, vpd) ==
    [csv_ok |-> TRUE, timestamp |-> stamp, temperature |-> temperature,
     humidity |-> humidity, dew_point |-> dew_point, vpd |-> vpd]

CsvErrRow ==
    [csv_ok |-> FALSE, timestamp |-> Stamp(<<>>, ""), temperature |-> TxtBad,
     humidity |-> TxtBad, dew_point |-> TxtBad, vpd |-> TxtBad]

\* SensorRecord::from_csv_record panics when an unwrap meets a cell that
\* does not parse.
FromCsvRecordPanics(record) ==
    \/ ~ParsesDateTime(record.timestamp)
    \/ ~ParsesF32(record.temperature)
    \/ ~ParsesF32(record.humidity)
    \/ ~ParsesF32(record.dew_point)
    \/ ~ParsesF32(record.vpd)

from_csv_record(record) ==
    [timestamp   |-> parse_date_time(record.timestamp),
     temperature |-> ParseF32(record.temperature),
     humidity    |-> ParseF32(record.humidity),
     dew_point   |-> ParseF32(record.dew_point),
     vpd         |-> ParseF32(record.vpd)]

(***************************************************************************)
(* Iterator::max_by / min_by with |x, y| x.partial_cmp(&y).unwrap(), on a  *)
(* non-empty Vec<f32>.  Both fold from the first element; max_by keeps the *)
(* later of two equal elements, min_by the earlier.  The unwrap panics as  *)
(* soon as a comparison has a NaN operand.                                 *)
(***************************************************************************)

RECURSIVE MaxByFrom(_, _, _)
MaxByFrom(entries, i, acc) ==
    IF i > Len(entries) THEN acc
    ELSE MaxByFrom(entries, i + 1,
                   IF PartialCmp(acc, entries[i]) = "Greater" THEN acc ELSE entries[i])

\* max_by with the comparison turned round.
RECURSIVE MaxByReversedFrom(_, _, _)
MaxByReversedFrom(entries, i, acc) ==
    IF i > Len(entries) THEN acc
    ELSE MaxByReversedFrom(entries, i + 1,
                   IF PartialCmp(entries[i], acc) = "Greater" THEN acc ELSE entries[i])

MaxByReversed(entries) == MaxByReversedFrom(entries, 2, entries[1])

MaxBy(entries) == MaxByFrom(entries, 2, entries[1])

RECURSIVE MinByFrom(_, _, _)
MinByFrom(entries, i, acc) ==
    IF i > Len(entries) THEN acc
    ELSE MinByFrom(entries, i + 1,
                   IF PartialCmp(acc, entries[i]) = "Greater" THEN entries[i] ELSE acc)

MinBy(entries) == MinByFrom(entries, 2, entries[1])

RECURSIVE CmpPanicsFrom(_, _, _)
CmpPanicsFrom(entries, i, acc) ==
    IF i > Len(entries) THEN FALSE
    ELSE \/ PartialCmp(acc, entries[i]) = "nan"
         \/ CmpPanicsFrom(entries, i + 1,
                          IF PartialCmp(acc, entries[i]) = "Greater" THEN acc ELSE entries[i])

\* max_by is evaluated first, so it decides whether the scans panic.
ScanPanics(entries) == CmpPanicsFrom(entries, 2, entries[1])

(***************************************************************************)
(* DaySummaryStats.  A step of a calc_*_stats function that panics leaves  *)
(* the sum and the entries updated and the other fields as they were: the  *)
(* *_unwound operators give that state.                                    *)
(***************************************************************************)

GDD_THRESHOLD == F(65)

\* from_record seeding the dew point statistics from the humidity.
from_record_dew_from_humidity(record) ==
    [date |-> record.timestamp,
     temperature_stats |->
        [max_temperature     |-> record.temperature,
         min_temperature     |-> record.temperature,
         mean_temperature    |-> record.temperature,
         median_temperature  |-> record.temperature,
         temperature_entries |-> <<record.temperature>>,
         temperature_sum     |-> record.temperature],
     humidity_stats |->
        [max_humidity     |-> record.humidity,
         min_humidity     |-> record.humidity,
         mean_humidity    |-> record.humidity,
         median_humidity  |-> record.humidity,
         humidity_entries |-> <<record.humidity>>,
         humidity_sum     |-> record.humidity],
     dew_point_stats |->
        [max_dew_point     |-> record.humidity,
         min_dew_point     |-> record.humidity,
         mean_dew_point    |-> record.humidity,
         median_dew_point  |-> record.humidity,
         dew_point_entries |-> <<record.dew_point>>,
         dew_point_sum     |-> record.dew_point],
     vpd_stats |->
        [max_vpd     |-> record.vpd,
         min_vpd     |-> record.vpd,
         mean_vpd    |-> record.vpd,
         median_vpd  |-> record.vpd,
         vpd_entries |-> <<record.vpd>>,
         vpd_sum     |-> record.vpd],
     gdd |-> FSub(record.temperature, GDD_THRESHOLD)]

from_record(record) ==
    [date |-> record.timestamp,
     temperature_stats |->
        [max_temperature     |-> record.temperature,
         min_temperature     |-> record.temperature,
         mean_temperature    |-> record.temperature,
         median_temperature  |-> record.temperature,
         temperature_entries |-> <<record.temperature>>,
         temperature_sum     |-> record.temperature],
     humidity_stats |->
        [max_humidity     |-> record.humidity,
         min_humidity     |-> record.humidity,
         mean_humidity    |-> record.humidity,
         median_humidity  |-> record.humidity,
         humidity_entries |-> <<record.humidity>>,
         humidity_sum     |-> record.humidity],
     dew_point_stats |->
        [max_dew_point     |-> record.dew_point,
         min_dew_point     |-> record.dew_point,
         mean_dew_point    |-> record.dew_point,
         median_dew_point  |-> record.dew_point,
         dew_point_entries |-> <<record.dew_point>>,
         dew_point_sum     |-> record.dew_point],
     vpd_stats |->
        [max_vpd     |-> record.vpd,
         min_vpd     |-> record.vpd,
         mean_vpd    |-> record.vpd,
         median_vpd  |-> record.vpd,
         vpd_entries |-> <<record.vpd>>,
         vpd_sum     |-> record.vpd],
     gdd |-> FSub(record.temperature, GDD_THRESHOLD)]

\* The index of the lower middle entry.
median_index_lower(entries) == (Len(entries) - 1) \div 2

\* The Vec index of the entry that is in the middle by value: floor(len / 2)
\* entries at most are less than it, and more than that are not greater.
median_index_by_value(entries) ==
    (CHOOSE i \in 1..Len(entries) :
        /\ Cardinality({ j \in 1..Len(entries) :
               PartialCmp(entries[j], entries[i]) = "Less" }) <= Len(entries) \div 2
        /\ Cardinality({ j \in 1..Len(entries) :
               PartialCmp(entries[j], entries[i]) # "Greater" }) > Len(entries) \div 2) - 1

\* Vec index of the median: len / 2, counted from 0.
median_index(entries) == Len(entries) \div 2

calc_temperature_stats_unwound(self, record) ==
    [self EXCEPT
        !.temperature_stats.temperature_sum = FAdd(@, record.temperature),
        !.temperature_stats.temperature_entries = Append(@, record.temperature)]

calc_temperature_stats_panics(self, record) ==
    ScanPanics(Append(self.temperature_stats.temperature_entries, record.temperature))

calc_temperature_stats(self, record) ==
    LET sum     == FAdd(self.temperature_stats.temperature_sum, record.temperature)
        entries == Append(self.temperature_stats.temperature_entries, record.temperature)
    IN  [self EXCEPT !.temperature_stats =
            [max_temperature     |-> MaxBy(entries),
             min_temperature     |-> MinBy(entries),
             mean_temperature    |-> FDiv(sum, UsizeAsF32(Len(entries))),
             median_temperature  |-> entries[median_index(entries) + 1],
             temperature_entries |-> entries,
             temperature_sum     |-> sum]]

calc_humidity_stats_unwound(self, record) ==
    [self EXCEPT
        !.humidity_stats.humidity_sum = FAdd(@, record.humidity),
        !.humidity_stats.humidity_entries = Append(@, record.humidity)]

calc_humidity_stats_panics(self, record) ==
    ScanPanics(Append(self.humidity_stats.humidity_entries, record.humidity))

\* calc_humidity_stats putting the new value in front of the entries.
calc_humidity_stats_insert_first(self, record) ==
    LET sum     == FAdd(self.humidity_stats.humidity_sum, record.humidity)
        entries == <<record.humidity>> \o self.humidity_stats.humidity_entries
    IN  [self EXCEPT !.humidity_stats =
            [max_humidity     |-> MaxBy(entries),
             min_humidity     |-> MinBy(entries),
             mean_humidity    |-> FDiv(sum, UsizeAsF32(Len(entries))),
             median_humidity  |-> entries[median_index(entries) + 1],
             humidity_entries |-> entries,
             humidity_sum     |-> sum]]

calc_humidity_stats(self, record) ==
    LET sum    == FAdd(self.humidity_stats.humidity_sum, record.humidity)
        entries == Append(self.humidity_stats.humidity_entries, record.humidity)
    IN  [self EXCEPT !.humidity_stats =
            [max_humidity     |-> MaxBy(entries),
             min_humidity     |-> MinBy(entries),
             mean_humidity    |-> FDiv(sum, UsizeAsF32(Len(entries))),
             median_humidity  |-> entries[median_index(entries) + 1],
             humidity_entries |-> entries,
             humidity_sum     |-> sum]]

calc_dew_point_stats_unwound(self, record) ==
    [self EXCEPT
        !.dew_point_stats.dew_point_sum = FAdd(@, record.dew_point),
        !.dew_point_stats.dew_point_entries = Append(@, record.dew_point)]

calc_dew_point_stats_panics(self, record) ==
    ScanPanics(Append(self.dew_point_stats.dew_point_entries, record.dew_point))

calc_dew_point_stats(self, record) ==
    LET sum     == FAdd(self.dew_point_stats.dew_point_sum, record.dew_point)
        entries == Append(self.dew_point_stats.dew_point_entries, record.dew_point)
    IN  [self EXCEPT !.dew_point_stats =
            [max_dew_point     |-> MaxBy(entries),
             min_dew_point     |-> MinBy(entries),
             mean_dew_point    |-> FDiv(sum, UsizeAsF32(Len(entries))),
             median_dew_point  |-> entries[median_index(entries) + 1],
             dew_point_entries |-> entries,
             dew_point_sum     |-> sum]]

calc_vpd_stats_unwound(self, record) ==
    [self EXCEPT
        !.vpd_stats.vpd_sum = FAdd(@, record.vpd),
        !.vpd_stats.vpd_entries = Append(@, record.vpd)]

calc_vpd_stats_panics(self, record) ==
    ScanPanics(Append(self.vpd_stats.vpd_entries, record.vpd))

\* calc_vpd_stats taking the mean's denominator before the push.
calc_vpd_stats_early_len(self, record) ==
    LET sum     == FAdd(self.vpd_stats.vpd_sum, record.vpd)
        entries == Append(self.vpd_stats.vpd_entries, record.vpd)
    IN  [self EXCEPT !.vpd_stats =
            [max_vpd     |-> MaxBy(entries),
             min_vpd     |-> MinBy(entries),
             mean_vpd    |-> FDiv(sum, UsizeAsF32(Len(self.vpd_stats.vpd_entries))),
             median_vpd  |-> entries[median_index(entries) + 1],
             vpd_entries |-> entries,
             vpd_sum     |-> sum]]

calc_vpd_stats(self, record) ==
    LET sum     == FAdd(self.vpd_stats.vpd_sum, record.vpd)
        entries == Append(self.vpd_stats.vpd_entries, record.vpd)
    IN  [self EXCEPT !.vpd_stats =
            [max_vpd     |-> MaxBy(entries),
             min_vpd     |-> MinBy(entries),
             mean_vpd    |-> FDiv(sum, UsizeAsF32(Len(entries))),
             median_vpd  |-> entries[median_index(entries) + 1],
             vpd_entries |-> entries,
             vpd_sum     |-> sum]]

calc_growing_degrees_day(self) ==
    [self EXCEPT !.gdd = FSub(self.temperature_stats.mean_temperature, GDD_THRESHOLD)]

\* The calls of add_record with calc_growing_degrees_day made first, on the
\* mean the day had before the reading.
absorb_gdd_first(self, record) ==
    LET s0 == calc_growing_degrees_day(self) IN
    IF calc_temperature_stats_panics(s0, record)
    THEN [day |-> calc_temperature_stats_unwound(s0, record), panicked |-> TRUE]
    ELSE LET s1 == calc_temperature_stats(s0, record) IN
    IF calc_humidity_stats_panics(s1, record)
    THEN [day |-> calc_humidity_stats_unwound(s1, record), panicked |-> TRUE]
    ELSE LET s2 == calc_humidity_stats(s1, record) IN
    IF calc_dew_point_stats_panics(s2, record)
    THEN [day |-> calc_dew_point_stats_unwound(s2, record), panicked |-> TRUE]
    ELSE LET s3 == calc_dew_point_stats(s2, record) IN
    IF calc_vpd_stats_panics(s3, record)
    THEN [day |-> calc_vpd_stats_unwound(s3, record), panicked |-> TRUE]
    ELSE [day |-> calc_vpd_stats(s3, record), panicked |-> FALSE]

\* The five calls of add_record on the last day, in order, stopping at the
\* first one that panics: [day, panicked].
absorb(self, record) ==
    IF calc_temperature_stats_panics(self, record)
    THEN [day |-> calc_temperature_stats_unwound(self, record), panicked |-> TRUE]
    ELSE LET s1 == calc_temperature_stats(self, record) IN
    IF calc_humidity_stats_panics(s1, record)
    THEN [day |-> calc_humidity_stats_unwound(s1, record), panicked |-> TRUE]
    ELSE LET s2 == calc_humidity_stats(s1, record) IN
    IF calc_dew_point_stats_panics(s2, record)
    THEN [day |-> calc_dew_point_stats_unwound(s2, record), panicked |-> TRUE]
    ELSE LET s3 == calc_dew_point_stats(s2, record) IN
    IF calc_vpd_stats_panics(s3, record)
    THEN [day |-> calc_vpd_stats_unwound(s3, record), panicked |-> TRUE]
    ELSE [day |-> calc_growing_degrees_day(calc_vpd_stats(s3, record)),
          panicked |-> FALSE]

\* add_record looking at the first day of the ledger instead of the last.
add_record_first_day(days, record) ==
    IF Len(days) > 0
    THEN IF days[1].date = record.timestamp
         THEN LET r == absorb(days[Len(days)], record)
              IN  [days |-> [days EXCEPT ![Len(days)] = r.day], panicked |-> r.panicked]
         ELSE [days |-> Append(days, from_record(record)), panicked |-> FALSE]
    ELSE [days |-> Append(days, from_record(record)), panicked |-> FALSE]

\* add_record appending a day for every reading.
add_record_always_push(days, record) ==
    [days |-> Append(days, from_record(record)), panicked |-> FALSE]

\* add_record absorbing the reading into whichever day has its date.
add_record_any_day(days, record) ==
    IF \E i \in 1..Len(days) : days[i].date = record.timestamp
    THEN LET i == CHOOSE i \in 1..Len(days) : days[i].date = record.timestamp
             r == absorb(days[i], record)
         IN  [days |-> [days EXCEPT ![i] = r.day], panicked |-> r.panicked]
    ELSE [days |-> Append(days, from_record(record)), panicked |-> FALSE]

\* add_record starting a day only for a later date: a reading of the last
\* day's date or of an earlier one goes into the last day.
add_record_later_date_only(days, record) ==
    IF Len(days) > 0
    THEN IF LET last == days[Len(days)].date
                 date == record.timestamp
             IN  \/ date[1] < last[1]
                 \/ date[1] = last[1] /\ date[2] < last[2]
                 \/ date[1] = last[1] /\ date[2] = last[2] /\ date[3] <= last[3]
         THEN LET r == absorb(days[Len(days)], record)
              IN  [days |-> [days EXCEPT ![Len(days)] = r.day], panicked |-> r.panicked]
         ELSE [days |-> Append(days, from_record(record)), panicked |-> FALSE]
    ELSE [days |-> Append(days, from_record(record)), panicked |-> FALSE]

\* add_record keeping the ledger in date order: a new day goes before the
\* days of a later date.
add_record_in_date_order(days, record) ==
    IF Len(days) > 0 /\ days[Len(days)].date = record.timestamp
    THEN LET r == absorb(days[Len(days)], record)
         IN  [days |-> [days EXCEPT ![Len(days)] = r.day], panicked |-> r.panicked]
    ELSE LET before == SelectSeq(days, LAMBDA day :
                           \/ day.date[1] < record.timestamp[1]
                           \/ day.date[1] = record.timestamp[1]
                                /\ day.date[2] < record.timestamp[2]
                           \/ day.date[1] = record.timestamp[1]
                                /\ day.date[2] = record.timestamp[2]
                                /\ day.date[3] <= record.timestamp[3])
         IN  [days |-> before \o <<from_record(record)>>
                          \o SubSeq(days, Len(before) + 1, Len(days)),
              panicked |-> FALSE]

\* DaySummaries::add_record on the Vec `days`: [days, panicked].
add_record(days, record) ==
    IF Len(days) > 0
    THEN IF days[Len(days)].date = record.timestamp
         THEN LET r == absorb(days[Len(days)], record)
              IN  [days |-> [days EXCEPT ![Len(days)] = r.day], panicked |-> r.panicked]
         ELSE [days |-> Append(days, from_record(record)), panicked |-> FALSE]
    ELSE [days |-> Append(days, from_record(record)), panicked |-> FALSE]

\* A Display counting the readings of the days instead of the days.
DaySummariesToString_counts_readings(days) ==
    IF Len(days) > 0
    THEN <<Len(days) + Len(days[Len(days)].temperature_stats.temperature_entries) - 1,
           " records for date range ", days[1].date, " - ", days[Len(days)].date>>
    ELSE <<"length: ", Len(days), ", date range: <na> - <na>">>

\* Display for DaySummaries: the line main prints before the report.
DaySummariesToString(days) ==
    IF Len(days) > 0
    THEN <<Len(days), " records for date range ", days[1].date,
           " - ", days[Len(days)].date>>
    ELSE <<"length: ", Len(days), ", date range: <na> - <na>">>

(***************************************************************************)
(* The inputs of the model: the rows the two CSV readers can yield.        *)
(***************************************************************************)

D1 == <<2021, 6, 1>>
D2 == <<2021, 6, 2>>
D3 == <<2021, 6, 3>>

\* Three readings whose four fields are not ordered alike, one with a time
\* of day missing.
ReadingA(d) == CsvRow(Stamp(d, "08:00"), Dec(10, 0), Dec(60, 0), Dec(55, 1), Dec(12, 1))
ReadingB(d) == CsvRow(Stamp(d, ""), Dec(30, 0), Dec(40, 0), Dec(7, 0), Dec(8, 1))
ReadingC(d) == CsvRow(Stamp(d, "20:15"), Dec(20, 0), Dec(50, 0), Dec(425, 2), Dec(1, 0))

GoodRows == { ReadingA(d) : d \in {D1, D2} } \cup { ReadingB(d) : d \in {D1, D2} }
            \cup { ReadingC(d) : d \in {D1, D2} }

\* A row whose cells all parse, one of them to NaN.
NaNRows == { CsvRow(Stamp(D1, "12:00"), Dec(20, 0), TxtNaN, Dec(7, 0), Dec(1, 0)) }

\* Rows that do not parse: a cell that is no number, a date that lacks a
\* part, and a row the CSV reader itself rejects.
BadRows ==
    { CsvRow(Stamp(D1, ""), TxtBad, Dec(40, 0), Dec(7, 0), Dec(1, 0)),
      CsvRow(Stamp(<<2021, 6>>, "08:00"), Dec(10, 0), Dec(60, 0), Dec(7, 0), Dec(1, 0)),
      CsvErrRow }

\* The rows of data/example.csv under Spec: any order of dates and values.
SensorRows == GoodRows \cup NaNRows \cup BadRows

\* The rows of data/example.csv under SpecDays: longer streams over three
\* dates, of readings that all parse to numbers.
ReadingE1(d) == CsvRow(Stamp(d, "06:00"), Dec(70, 0), Dec(50, 0), Dec(55, 0), Dec(10, 1))
ReadingE2(d) == CsvRow(Stamp(d, "18:00"), Dec(80, 0), Dec(60, 0), Dec(58, 0), Dec(12, 1))
ReadingE3(d) == CsvRow(Stamp(d, ""), Dec(75, 0), Dec(55, 0), Dec(56, 0), Dec(11, 1))

DayRows == { ReadingE1(D1), ReadingE2(D1), ReadingE3(D2), ReadingE1(D2), ReadingE3(D3) }

EventRow(stamp, event) == [csv_ok |-> TRUE, timestamp |-> stamp, event |-> event]

\* The rows of data/events.csv: an event, a row whose date lacks a part,
\* and a row the CSV reader rejects.
EventRows ==
    { EventRow(Stamp(D1, "09:30"), "planted"),
      EventRow(Stamp(<<2021, 6>>, ""), "lost"),
      [csv_ok |-> FALSE, timestamp |-> Stamp(<<>>, ""), event |-> ""] }

\* The rows of data/events.csv under SpecJoin: two events of one date (at
\* different times of day), an event of a second date, none of the third,
\* and the rows that do not parse.
JoinEventRows ==
    EventRows \cup { EventRow(Stamp(D1, "17:45"), "harvested"),
                     EventRow(Stamp(D2, ""), "watered") }

\* The rows of data/example.csv under SpecJoin: one reading of each date.
JoinSensorRows == { ReadingB(D1), ReadingC(D2), ReadingA(D3) }

\* Most rows read from data/example.csv under Spec and under SpecDays, and
\* most rows read from data/events.csv.
MaxRows == 4
MaxDayRows == 5
MaxEvents == 1

\* Most rows read from data/events.csv and from data/example.csv under
\* SpecJoin.
MaxJoinEvents == 3
MaxJoinRows == 3

(***************************************************************************)
(* main.                                                                   *)
(***************************************************************************)

VARIABLES
    pc,               \* where main is: start, events, sensor, report, done,
                      \* or how it failed: panicked (an unwrap), error (a `?`)
    event_read,       \* the rows event_reader has yielded
    event_summaries,  \* HashMap<String, String>
    sensor_read,      \* the rows sensor_reader has yielded
    day_summaries,    \* DaySummaries.0
    stdout,           \* the lines printed
    total_gdd,
    day_index,        \* position of the report loop in day_summaries.0
    writer,           \* records in the csv::Writer's buffer
    out_file          \* records in data/out_example.csv

vars == <<pc, event_read, event_summaries, sensor_read, day_summaries, stdout,
          total_gdd, day_index, writer, out_file>>

Header == <<"date", "avg temp", "max temp", "min temp", "avg humidity",
            "max humidity", "min humidity", "avg dewpoint", "avg vpd", "gdd", "event">>

\* f32::to_string prints the shortest decimal that parses back to the same
\* f32: a cell is identified by the f32 it denotes.
F32ToString(x) == <<"f32", x>>

EmptyMap == [key \in {} |-> ""]

\* An insert that keeps the value a key already has.
Insert_keep_first(map, key, value) == map @@ (key :> value)

\* HashMap::insert.
Insert(map, key, value) == (key :> value) @@ map

Init ==
    /\ pc = "start"
    /\ event_read = <<>>
    /\ event_summaries = EmptyMap
    /\ sensor_read = <<>>
    /\ day_summaries = <<>>
    /\ stdout = <<>>
    /\ total_gdd = F(0)
    /\ day_index = 1
    /\ writer = <<>>
    /\ out_file = <<>>

\* Both inputs are read, the output file is created (and truncated) and
\* the header goes into the writer's buffer.
Start ==
    /\ pc = "start"
    /\ pc' = "events"
    /\ writer' = <<Header>>
    /\ UNCHANGED <<event_read, event_summaries, sensor_read, day_summaries,
                   stdout, total_gdd, day_index, out_file>>

\* main ends early, by a panic or by an Err of `?`: its locals are dropped,
\* and dropping the csv::Writer flushes its buffer to the file.
Fail(how) ==
    /\ pc' = how
    /\ out_file' = out_file \o writer
    /\ writer' = <<>>

\* One turn of the loop over event_reader.records().
ReadEventRecord(record) ==
    /\ pc = "events"
    /\ event_read' = Append(event_read, record)
    /\ IF ~record.csv_ok
       THEN Fail("error") /\ UNCHANGED event_summaries
       ELSE IF ~ParsesDateTime(record.timestamp)
       THEN Fail("panicked") /\ UNCHANGED event_summaries
       ELSE /\ event_summaries' =
                 Insert(event_summaries,
                        DateToString(parse_date_time(record.timestamp)), record.event)
            /\ UNCHANGED <<pc, writer, out_file>>
    /\ UNCHANGED <<sensor_read, day_summaries, stdout, total_gdd, day_index>>

\* event_reader is exhausted.
EventsDone ==
    /\ pc = "events"
    /\ pc' = "sensor"
    /\ UNCHANGED <<event_read, event_summaries, sensor_read, day_summaries,
                   stdout, total_gdd, day_index, writer, out_file>>

\* The loop passing over a row that does not parse.
ReadSensorRecord_skip_malformed(record) ==
    /\ pc = "sensor"
    /\ sensor_read' = Append(sensor_read, record)
    /\ IF ~record.csv_ok \/ FromCsvRecordPanics(record)
       THEN UNCHANGED <<pc, writer, out_file, day_summaries>>
       ELSE \E r \in {add_record(day_summaries, from_csv_record(record))} :
                /\ day_summaries' = r.days
                /\ IF r.panicked
                   THEN Fail("panicked")
                   ELSE UNCHANGED <<pc, writer, out_file>>
    /\ UNCHANGED <<event_read, event_summaries, stdout, total_gdd, day_index>>

\* One turn of the loop over sensor_reader.records().
ReadSensorRecord(record) ==
    /\ pc = "sensor"
    /\ sensor_read' = Append(sensor_read, record)
    /\ IF ~record.csv_ok
       THEN Fail("error") /\ UNCHANGED day_summaries
       ELSE IF FromCsvRecordPanics(record)
       THEN Fail("panicked") /\ UNCHANGED day_summaries
       ELSE \E r \in {add_record(day_summaries, from_csv_record(record))} :
                /\ day_summaries' = r.days
                /\ IF r.panicked
                   THEN Fail("panicked")
                   ELSE UNCHANGED <<pc, writer, out_file>>
    /\ UNCHANGED <<event_read, event_summaries, stdout, total_gdd, day_index>>

\* The end of the sensor loop taking an empty ledger for an error.
SensorDone_empty_is_error ==
    /\ pc = "sensor"
    /\ IF Len(day_summaries) = 0
       THEN Fail("error") /\ UNCHANGED <<stdout, total_gdd, day_index>>
       ELSE /\ pc' = "report"
            /\ stdout' = Append(stdout, <<"day summaries: ", DaySummariesToString(day_summaries)>>)
            /\ total_gdd' = F(0)
            /\ day_index' = 1
            /\ UNCHANGED <<writer, out_file>>
    /\ UNCHANGED <<event_read, event_summaries, sensor_read, day_summaries>>

\* sensor_reader is exhausted: the summary line is printed and the report
\* loop starts with total_gdd = 0.0.
SensorDone ==
    /\ pc = "sensor"
    /\ pc' = "report"
    /\ stdout' = Append(stdout, <<"day summaries: ", DaySummariesToString(day_summaries)>>)
    /\ total_gdd' = F(0)
    /\ day_index' = 1
    /\ UNCHANGED <<event_read, event_summaries, sensor_read, day_summaries,
                   writer, out_file>>

\* The event of a day: the map's entry for its date string, else "".
EventOf(map, day_summary) ==
    IF DateToString(day_summary.date) \in DOMAIN map
    THEN map[DateToString(day_summary.date)]
    ELSE ""

\* The record written for a day, given the running total after the day.
ReportRecord(day_summary, total, event) ==
    <<DateToString(day_summary.date),
      F32ToString(day_summary.temperature_stats.mean_temperature),
      F32ToString(day_summary.temperature_stats.max_temperature),
      F32ToString(day_summary.temperature_stats.min_temperature),
      F32ToString(day_summary.humidity_stats.mean_humidity),
      F32ToString(day_summary.humidity_stats.max_humidity),
      F32ToString(day_summary.humidity_stats.min_humidity),
      F32ToString(day_summary.dew_point_stats.mean_dew_point),
      F32ToString(day_summary.vpd_stats.mean_vpd),
      F32ToString(total),
      event>>

\* The loop writing each day's own gdd.
WriteDayRecord_own_gdd ==
    /\ pc = "report"
    /\ day_index <= Len(day_summaries)
    /\ LET day_summary == day_summaries[day_index]
           event       == EventOf(event_summaries, day_summary)
           total       == FAdd(total_gdd, day_summary.gdd)
       IN  /\ total_gdd' = total
           /\ writer' = Append(writer, ReportRecord(day_summary, day_summary.gdd, event))
    /\ day_index' = day_index + 1
    /\ UNCHANGED <<pc, event_read, event_summaries, sensor_read, day_summaries,
                   stdout, out_file>>

\* The loop writing nothing for a day whose date an earlier day has.
WriteDayRecord_once_per_date ==
    /\ pc = "report"
    /\ day_index <= Len(day_summaries)
    /\ LET day_summary == day_summaries[day_index]
           event       == EventOf(event_summaries, day_summary)
           total       == FAdd(total_gdd, day_summary.gdd)
       IN  /\ total_gdd' = total
           /\ writer' = IF \E i \in 1..(day_index - 1) :
                                day_summaries[i].date = day_summary.date
                        THEN writer
                        ELSE Append(writer, ReportRecord(day_summary, total, event))
    /\ day_index' = day_index + 1
    /\ UNCHANGED <<pc, event_read, event_summaries, sensor_read, day_summaries,
                   stdout, out_file>>

\* One turn of the loop over &day_summaries.0.
WriteDayRecord ==
    /\ pc = "report"
    /\ day_index <= Len(day_summaries)
    /\ LET day_summary == day_summaries[day_index]
           event       == EventOf(event_summaries, day_summary)
           total       == FAdd(total_gdd, day_summary.gdd)
       IN  /\ total_gdd' = total
           /\ writer' = Append(writer, ReportRecord(day_summary, total, event))
    /\ day_index' = day_index + 1
    /\ UNCHANGED <<pc, event_read, event_summaries, sensor_read, day_summaries,
                   stdout, out_file>>

\* writer.flush() and Ok(()).
Flush ==
    /\ pc = "report"
    /\ day_index > Len(day_summaries)
    /\ pc' = "done"
    /\ out_file' = out_file \o writer
    /\ writer' = <<>>
    /\ UNCHANGED <<event_read, event_summaries, sensor_read, day_summaries,
                   stdout, total_gdd, day_index>>

Next ==
    \/ Start
    \/ Len(event_read) < MaxEvents /\ \E record \in EventRows : ReadEventRecord(record)
    \/ EventsDone
    \/ Len(sensor_read) < MaxRows /\ \E record \in SensorRows : ReadSensorRecord(record)
    \/ SensorDone
    \/ WriteDayRecord
    \/ Flush

Spec == Init /\ [][Next]_vars

\* Runs with an empty events file and the rows of DayRows.
NextDays ==
    \/ Start
    \/ EventsDone
    \/ Len(sensor_read) < MaxDayRows /\ \E record \in DayRows : ReadSensorRecord(record)
    \/ SensorDone
    \/ WriteDayRecord
    \/ Flush

SpecDays == Init /\ [][NextDays]_vars

\* Runs with an empty events file and the rows of SensorRows: the ledger
\* never reads event_summaries, so these runs build every ledger Spec builds.
NextLedger ==
    \/ Start
    \/ EventsDone
    \/ Len(sensor_read) < MaxRows /\ \E record \in SensorRows : ReadSensorRecord(record)
    \/ SensorDone
    \/ WriteDayRecord
    \/ Flush

SpecLedger == Init /\ [][NextLedger]_vars

\* Runs over events files with several events, some of one date, and short
\* sensor files.
NextJoin ==
    \/ Start
    \/ Len(event_read) < MaxJoinEvents
          /\ \E record \in JoinEventRows : ReadEventRecord(record)
    \/ EventsDone
    \/ Len(sensor_read) < MaxJoinRows
          /\ \E record \in JoinSensorRows : ReadSensorRecord(record)
    \/ SensorDone
    \/ WriteDayRecord
    \/ Flush

SpecJoin == Init /\ [][NextJoin]_vars

(***************************************************************************)
(* What the properties below speak of.                                     *)
(***************************************************************************)

\* A row that reaches add_record.
Parses(row) == row.csv_ok /\ ~FromCsvRecordPanics(row)

\* The readings handed to add_record so far, in input order.
Readings ==
    LET rows == SelectSeq(sensor_read, Parses)
    IN  [i \in 1..Len(rows) |-> from_csv_record(rows[i])]

ReadDates ==
    LET rows == SelectSeq(sensor_read, Parses)
    IN  [i \in 1..Len(rows) |-> parse_date_time(rows[i].timestamp)]

LedgerDates == [i \in 1..Len(day_summaries) |-> day_summaries[i].date]

\* main is not dead of a panic.  A panic inside add_record ends the process
\* in the middle of an update of the last day.
Alive == pc # "panicked"

\* Order of NaiveDate.
DateLe(a, b) ==
    \/ a[1] < b[1]
    \/ a[1] = b[1] /\ a[2] < b[2]
    \/ a[1] = b[1] /\ a[2] = b[2] /\ a[3] <= b[3]

NonDecreasing(dates) == \A i \in 1..(Len(dates) - 1) : DateLe(dates[i], dates[i + 1])

\* The positions at which a run of equal consecutive dates starts.
RunStarts(dates) ==
    SelectSeq([i \in 1..Len(dates) |-> i],
              LAMBDA i : i = 1 \/ dates[i] # dates[i - 1])

\* The length of the run-th run, given where the runs start and how many
\* dates there are.
RunLength(starts, len, run) ==
    (IF run = Len(starts) THEN len ELSE starts[run + 1] - 1) - starts[run] + 1

\* The four fields of a day, read alike.
FieldNames == {"temperature", "humidity", "dew_point", "vpd"}

ValueOf(reading, field) ==
    CASE field = "temperature" -> reading.temperature
      [] field = "humidity"    -> reading.humidity
      [] field = "dew_point"   -> reading.dew_point
      [] field = "vpd"         -> reading.vpd

StatOf(day, field) ==
    CASE field = "temperature" ->
            [max     |-> day.temperature_stats.max_temperature,
             min     |-> day.temperature_stats.min_temperature,
             mean    |-> day.temperature_stats.mean_temperature,
             median  |-> day.temperature_stats.median_temperature,
             entries |-> day.temperature_stats.temperature_entries,
             sum     |-> day.temperature_stats.temperature_sum]
      [] field = "humidity" ->
            [max     |-> day.humidity_stats.max_humidity,
             min     |-> day.humidity_stats.min_humidity,
             mean    |-> day.humidity_stats.mean_humidity,
             median  |-> day.humidity_stats.median_humidity,
             entries |-> day.humidity_stats.humidity_entries,
             sum     |-> day.humidity_stats.humidity_sum]
      [] field = "dew_point" ->
            [max     |-> day.dew_point_stats.max_dew_point,
             min     |-> day.dew_point_stats.min_dew_point,
             mean    |-> day.dew_point_stats.mean_dew_point,
             median  |-> day.dew_point_stats.median_dew_point,
             entries |-> day.dew_point_stats.dew_point_entries,
             sum     |-> day.dew_point_stats.dew_point_sum]
      [] field = "vpd" ->
            [max     |-> day.vpd_stats.max_vpd,
             min     |-> day.vpd_stats.min_vpd,
             mean    |-> day.vpd_stats.mean_vpd,
             median  |-> day.vpd_stats.median_vpd,
             entries |-> day.vpd_stats.vpd_entries,
             sum     |-> day.vpd_stats.vpd_sum]

\* The step of main that calls add_record.
AddRecordCalled ==
    /\ pc = "sensor"
    /\ Len(sensor_read') = Len(sensor_read) + 1
    /\ Parses(sensor_read'[Len(sensor_read')])

\* The reading that step hands to add_record.
Arriving == from_csv_record(sensor_read'[Len(sensor_read')])

(***************************************************************************)
(* C1.  add_record dispatch.  When the ledger is empty or the date of its  *)
(* last day differs from the reading's date, add_record appends exactly    *)
(* one day seeded from the reading and leaves the days before it as they   *)
(* were; when the last day has the reading's date, the ledger keeps its    *)
(* length and the reading's values are appended to the last day's entries. *)
(***************************************************************************)
C1_SeededFrom(day, reading) ==
    /\ day.date = reading.timestamp
    /\ \A f \in FieldNames : StatOf(day, f).entries = <<ValueOf(reading, f)>>

C1_AbsorbedInto(old, new, reading) ==
    /\ new.date = old.date
    /\ StatOf(new, "temperature").entries =
          Append(StatOf(old, "temperature").entries, reading.temperature)
    /\ pc' # "panicked" =>
          \A f \in FieldNames :
             StatOf(new, f).entries = Append(StatOf(old, f).entries, ValueOf(reading, f))

C1_AddRecordDispatch ==
    [][AddRecordCalled =>
        LET n == Len(day_summaries) IN
        IF n = 0 \/ day_summaries[n].date # Arriving.timestamp
        THEN /\ Len(day_summaries') = n + 1
             /\ SubSeq(day_summaries', 1, n) = day_summaries
             /\ C1_SeededFrom(day_summaries'[n + 1], Arriving)
        ELSE /\ Len(day_summaries') = n
             /\ SubSeq(day_summaries', 1, n - 1) = SubSeq(day_summaries, 1, n - 1)
             /\ C1_AbsorbedInto(day_summaries[n], day_summaries'[n], Arriving)]_vars

\* Both branches were taken: a second day was appended after a day that
\* had absorbed a reading.
C1_Witness ==
    /\ Len(day_summaries) = 2
    /\ Len(day_summaries[1].temperature_stats.temperature_entries) = 2
    /\ Len(day_summaries[2].temperature_stats.temperature_entries) = 2

(***************************************************************************)
(* C2.  While the dates read are non-decreasing, no two days of the ledger *)
(* have the same date, and a date that is in the ledger and may still      *)
(* arrive (it is not before the last date read) is the date of the last    *)
(* day.                                                                    *)
(***************************************************************************)
C2_OneDayPerDate ==
    \A dates \in {ReadDates} : \A days \in {LedgerDates} :
        NonDecreasing(dates) =>
            /\ \A i, j \in 1..Len(days) : days[i] = days[j] => i = j
            /\ \A d \in {D1, D2, D3} :
                  ( /\ Len(dates) > 0
                    /\ DateLe(dates[Len(dates)], d)
                    /\ \E i \in 1..Len(days) : days[i] = d )
                  => days[Len(days)] = d

\* A sorted stream over three dates, each day but the last with two readings.
C2_Witness ==
    /\ ReadDates = <<D1, D1, D2, D2, D3>>
    /\ LedgerDates = <<D1, D2, D3>>

(***************************************************************************)
(* C3.  A reading whose date is the date of an earlier day, but not of the *)
(* last day, is appended as a new day, so that the ledger then holds more  *)
(* than one day of that date.  Readings dated D1, D1, D2, D2, D1 give the  *)
(* three days D1, D2, D1, the first of them holding the first two readings *)
(* only.                                                                   *)
(***************************************************************************)
C3_Fragments ==
    /\ [][(/\ AddRecordCalled
           /\ Len(day_summaries) > 0
           /\ day_summaries[Len(day_summaries)].date # Arriving.timestamp
           /\ \E i \in 1..Len(day_summaries) : day_summaries[i].date = Arriving.timestamp)
          => /\ Len(day_summaries') = Len(day_summaries) + 1
             /\ day_summaries'[Len(day_summaries')].date = Arriving.timestamp
             /\ Cardinality({i \in 1..Len(day_summaries') :
                                day_summaries'[i].date = Arriving.timestamp}) >= 2]_vars
    /\ [](ReadDates = <<D1, D1, D2, D2, D1>> =>
            /\ LedgerDates = <<D1, D2, D1>>
            /\ \A readings \in {Readings} : \A f \in FieldNames :
                  StatOf(day_summaries[1], f).entries =
                     <<ValueOf(readings[1], f), ValueOf(readings[2], f)>>)

C3_Witness ==
    /\ ReadDates = <<D1, D1, D2, D2, D1>>
    /\ Len(day_summaries) = 3

\* Every field of every day of the ledger, as [max, min, mean, median,
\* entries, sum].
LedgerStats ==
    { StatOf(day_summaries[i], f) : i \in 1..Len(day_summaries), f \in FieldNames }

(***************************************************************************)
(* C4.  Between calls of add_record, for every day and field, the stored   *)
(* max is an entry that no entry exceeds and the stored min is an entry    *)
(* that exceeds no entry.                                                  *)
(***************************************************************************)
C4_MaxMinOfEntries ==
    Alive =>
        \A s \in LedgerStats :
            /\ \E i \in 1..Len(s.entries) : s.entries[i] = s.max
            /\ \A i \in 1..Len(s.entries) : PartialCmp(s.entries[i], s.max) # "Greater"
            /\ \E i \in 1..Len(s.entries) : s.entries[i] = s.min
            /\ \A i \in 1..Len(s.entries) : PartialCmp(s.min, s.entries[i]) # "Greater"

\* A day of three readings whose largest temperature is the second reading
\* and whose smallest is the first.
C4_Witness ==
    /\ Alive
    /\ \E i \in 1..Len(day_summaries) :
          LET s == StatOf(day_summaries[i], "temperature")
          IN  /\ Len(s.entries) = 3
              /\ s.max = s.entries[2]
              /\ s.min = s.entries[1]
              /\ s.max # s.entries[3]
              /\ s.min # s.entries[3]

\* The sum of the entries, added up in insertion order.
RECURSIVE SumOfFirst(_, _)
SumOfFirst(entries, n) ==
    IF n = 1 THEN entries[1] ELSE FAdd(SumOfFirst(entries, n - 1), entries[n])

SumInOrder(entries) == SumOfFirst(entries, Len(entries))

(***************************************************************************)
(* C5.  Between calls of add_record there is one day per run of equal      *)
(* consecutive dates read, and for every field of the day the entries are  *)
(* as many as the readings of the run, the stored sum is the sum of the    *)
(* entries added in insertion order, and the stored mean is that sum       *)
(* divided by the number of entries.                                       *)
(***************************************************************************)
C5_CountSumMean ==
    Alive =>
        \A dates \in {ReadDates} : \A starts \in {RunStarts(dates)} :
            /\ Len(day_summaries) = Len(starts)
            /\ \A i \in 1..Len(day_summaries) : \A f \in FieldNames :
                  \A s \in {StatOf(day_summaries[i], f)} :
                      /\ Len(s.entries) = RunLength(starts, Len(dates), i)
                      /\ s.sum = SumInOrder(s.entries)
                      /\ s.mean = FDiv(s.sum, F(Len(s.entries)))

\* A day of three readings whose mean is no entry and was rounded.
C5_Witness ==
    /\ Alive
    /\ \E s \in LedgerStats :
          /\ Len(s.entries) = 3
          /\ s.mean.k > 10
          /\ \A i \in 1..3 : s.entries[i] # s.mean

(***************************************************************************)
(* C6.  Between calls of add_record, for every day and field, the stored   *)
(* median is the entry at position floor(len / 2) of the entries in        *)
(* insertion order (counted from 0).  For a day whose temperatures arrive  *)
(* as 10, 30, 20 it is 30, not 20.                                         *)
(***************************************************************************)
C6_PositionalMedian ==
    Alive =>
        /\ \A s \in LedgerStats : s.median = s.entries[(Len(s.entries) \div 2) + 1]
        /\ \A i \in 1..Len(day_summaries) :
              LET s == StatOf(day_summaries[i], "temperature")
              IN  s.entries = <<F(10), F(30), F(20)>> => s.median = F(30) /\ s.median # F(20)

C6_Witness ==
    /\ Alive
    /\ \E i \in 1..Len(day_summaries) :
          StatOf(day_summaries[i], "temperature").entries = <<F(10), F(30), F(20)>>

(***************************************************************************)
(* C7.  Between calls of add_record, the gdd of every day is the day's     *)
(* current temperature mean minus 65; for a day of one reading that is     *)
(* the reading's temperature minus 65.                                     *)
(***************************************************************************)
C7_GddFromCurrentMean ==
    Alive =>
        \A i \in 1..Len(day_summaries) :
            LET s == StatOf(day_summaries[i], "temperature")
            IN  /\ day_summaries[i].gdd = FSub(s.mean, F(65))
                /\ Len(s.entries) = 1 => day_summaries[i].gdd = FSub(s.entries[1], F(65))

\* A day whose mean moved with its second reading: its gdd is neither
\* reading's temperature minus 65.
C7_Witness ==
    /\ Alive
    /\ \E i \in 1..Len(day_summaries) :
          LET s == StatOf(day_summaries[i], "temperature")
          IN  /\ Len(s.entries) = 2
              /\ day_summaries[i].gdd # FSub(s.entries[1], F(65))
              /\ day_summaries[i].gdd # FSub(s.entries[2], F(65))

\* The records written so far, the header first.
Written == out_file \o writer

\* Columns of the report.
DateColumn == 1
GddColumn == 10

\* The gdd of the first k days of the ledger, added up from 0.0 in order.
RECURSIVE CumulativeGdd(_)
CumulativeGdd(k) ==
    IF k = 0 THEN F(0) ELSE FAdd(CumulativeGdd(k - 1), day_summaries[k].gdd)

(***************************************************************************)
(* C8.  The gdd cell of the k-th data row written is the sum of the gdd of *)
(* the first k days of the ledger.  For the readings (D1, 70), (D1, 80),   *)
(* (D2, 75) both days have gdd 10 and the rows carry 10 and 20.            *)
(***************************************************************************)
C8_CumulativeGddColumn ==
    \A written \in {Written} :
        /\ \A k \in 1..(Len(written) - 1) :
              written[k + 1][GddColumn] = F32ToString(CumulativeGdd(k))
        /\ ( /\ sensor_read = <<ReadingE1(D1), ReadingE2(D1), ReadingE3(D2)>>
             /\ Len(written) = 3 )
           => /\ day_summaries[1].gdd = F(10)
              /\ day_summaries[2].gdd = F(10)
              /\ written[2][GddColumn] = F32ToString(F(10))
              /\ written[3][GddColumn] = F32ToString(F(20))

C8_Witness ==
    /\ sensor_read = <<ReadingE1(D1), ReadingE2(D1), ReadingE3(D2)>>
    /\ pc = "done"
    /\ Len(out_file) = 3

(***************************************************************************)
(* C9.  For every day that holds one reading, each field's max, min, mean  *)
(* and median are the reading's value of the field, the entries are that   *)
(* one value and the sum is that value.                                    *)
(***************************************************************************)
C9_SingleReadingDay ==
    \A dates \in {ReadDates} : \A starts \in {RunStarts(dates)} :
        \A i \in 1..Len(day_summaries) :
            (i <= Len(starts) /\ RunLength(starts, Len(dates), i) = 1) =>
                \A reading \in {from_csv_record(SelectSeq(sensor_read, Parses)[starts[i]])} :
                \A f \in FieldNames :
                    \A s \in {StatOf(day_summaries[i], f)} :
                    \A v \in {ValueOf(reading, f)} :
                        /\ s.max = v
                        /\ s.min = v
                        /\ s.mean = v
                        /\ s.median = v
                        /\ s.entries = <<v>>
                        /\ s.sum = v

\* A day of one reading after a day of two, with humidity and dew point
\* that differ.
C9_Witness ==
    /\ Len(day_summaries) = 2
    /\ Len(ReadDates) = 3
    /\ RunStarts(ReadDates) = <<1, 3>>
    /\ StatOf(day_summaries[2], "humidity").max # StatOf(day_summaries[2], "dew_point").max

(***************************************************************************)
(* C10.  The data rows written are the days of the ledger, in ledger       *)
(* order, each with its day's date; when main is done the file holds the   *)
(* header and one row for every day, so a date that is split over several  *)
(* days has several rows.                                                  *)
(***************************************************************************)
C10_OneRowPerDay ==
    \A written \in {Written} :
        /\ \A k \in 1..(Len(written) - 1) :
              /\ k <= Len(day_summaries)
              /\ written[k + 1][DateColumn] = DateToString(day_summaries[k].date)
        /\ pc = "report" => Len(written) = day_index
        /\ pc = "done" =>
              /\ out_file = written
              /\ out_file[1] = Header
              /\ Len(out_file) = Len(day_summaries) + 1

\* A finished report of three rows, the first and the third of one date.
C10_Witness ==
    /\ pc = "done"
    /\ LedgerDates = <<D1, D2, D1>>
    /\ Len(out_file) = 4
    /\ out_file[2][DateColumn] = out_file[4][DateColumn]

EventColumn == 11

\* The positions of the events rows read whose date prints as dateString.
EventRowsOf(dateString) ==
    { i \in 1..Len(event_read) :
        /\ event_read[i].csv_ok
        /\ ParsesDateTime(event_read[i].timestamp)
        /\ DateToString(parse_date_time(event_read[i].timestamp)) = dateString }

Last(positions) == CHOOSE i \in positions : \A j \in positions : j <= i

\* The report loop is at a day whose date no events row has.
AtDayWithoutEvent ==
    /\ pc = "report"
    /\ day_index <= Len(day_summaries)
    /\ EventRowsOf(DateToString(day_summaries[day_index].date)) = {}

(***************************************************************************)
(* C11.  Event join.  The event cell of every data row is the label of    *)
(* the last events row read whose date is the row's date, and the empty    *)
(* string when no events row has that date; at a day without an event the  *)
(* report loop writes its row and goes on, it does not fail.               *)
(***************************************************************************)
C11_EventJoin ==
    /\ [](\A written \in {Written} : \A k \in 2..Len(written) :
             \A rows \in {EventRowsOf(written[k][DateColumn])} :
                 written[k][EventColumn] =
                     IF rows = {} THEN "" ELSE event_read[Last(rows)].event)
    /\ [][AtDayWithoutEvent =>
             /\ pc' = "report"
             /\ day_index' = day_index + 1
             /\ Len(Written') = Len(Written) + 1
             /\ Written'[Len(Written')][EventColumn] = ""]_vars

\* A finished report after the events planted and harvested of one date,
\* read in this order: a row of that date says harvested, and a row of a
\* date without an event has the empty cell.
C11_Witness ==
    /\ pc = "done"
    /\ Len(event_read) >= 2
    /\ event_read[1] = EventRow(Stamp(D1, "09:30"), "planted")
    /\ event_read[2] = EventRow(Stamp(D1, "17:45"), "harvested")
    /\ \E k \in 2..Len(out_file) :
          /\ out_file[k][DateColumn] = DateToString(D1)
          /\ out_file[k][EventColumn] = "harvested"
    /\ \E k \in 2..Len(out_file) :
          /\ out_file[k][DateColumn] = DateToString(D3)
          /\ out_file[k][EventColumn] = ""

\* main has ended early.
Failed == pc \in {"panicked", "error"}

\* What the finished report holds: the header and a row for every day.
FullReport ==
    /\ Len(out_file) = Len(day_summaries) + 1
    /\ out_file[1] = Header
    /\ \A k \in 1..Len(day_summaries) :
          out_file[k + 1][DateColumn] = DateToString(day_summaries[k].date)

(***************************************************************************)
(* C12.  A run is all-or-nothing: when main is done the output file holds  *)
(* the header and every day's row, and when main has failed nothing has    *)
(* been written to the output file, the header included.                   *)
(***************************************************************************)
C12_AllOrNothing ==
    /\ pc = "done" => FullReport
    /\ Failed => out_file = <<>>

\* A sensor row that does not parse.
Malformed(row) == ~row.csv_ok \/ FromCsvRecordPanics(row)

(***************************************************************************)
(* C13.  A malformed sensor row is fatal.  The step that reads it ends     *)
(* main in a failure and leaves the ledger as it was; a malformed row is   *)
(* the last row ever read, so no reading after it reaches the ledger; a    *)
(* failed main takes no further step, and no day row is in the output.     *)
(***************************************************************************)
C13_MalformedRowIsFatal ==
    /\ [](\A i \in 1..Len(sensor_read) :
             Malformed(sensor_read[i]) =>
                 /\ i = Len(sensor_read)
                 /\ Failed
                 /\ Len(Written) <= 1
                 /\ Len(ReadDates) = i - 1)
    /\ [][/\ ~Failed
          /\ (Len(sensor_read') = Len(sensor_read) + 1
                /\ Malformed(sensor_read'[Len(sensor_read')]))
                => (Failed' /\ day_summaries' = day_summaries)]_vars

\* main has failed at a third row whose date lacks a part, after a day of
\* two readings.
C13_Witness ==
    /\ pc = "panicked"
    /\ Len(sensor_read) = 3
    /\ ~ParsesDateTime(sensor_read[3].timestamp)
    /\ Len(day_summaries) = 1
    /\ Len(day_summaries[1].temperature_stats.temperature_entries) = 2

\* The sensor file has no data row: the sensor loop has ended without
\* having read one.
EmptySensorInput == sensor_read = <<>> /\ pc \in {"report", "done", "panicked", "error"}

(***************************************************************************)
(* C14.  Empty sensor input is not an error.  When the sensor loop ends    *)
(* without a row read, main goes on to the report, not to a failure; the   *)
(* ledger is empty, the report loop has no day to write, and the finished  *)
(* output file is the header row alone.                                    *)
(***************************************************************************)
C14_EmptySensorInput ==
    /\ [](EmptySensorInput /\ ~Failed =>
             /\ day_summaries = <<>>
             /\ Written = <<Header>>
             /\ pc = "report" => day_index > Len(day_summaries)
             /\ pc = "done" => out_file = <<Header>>)
    /\ [][pc = "sensor" /\ sensor_read' = <<>> => pc' = "report"]_vars
    /\ [][pc = "report" /\ sensor_read = <<>> => pc' = "done"]_vars

\* main is done without a sensor row, after an event was read.
C14_Witness ==
    /\ pc = "done"
    /\ sensor_read = <<>>
    /\ Len(event_read) = 1
    /\ out_file = <<Header>>

(***************************************************************************)
(* C15.  Totality: while every row read from the sensor file parses,       *)
(* every call of add_record returns, so main has not failed, and once the  *)
(* rows are exhausted main is in the report.                               *)
(***************************************************************************)
C15_Totality ==
    (\A i \in 1..Len(sensor_read) : Parses(sensor_read[i])) =>
        /\ ~Failed
        /\ \A s \in LedgerStats : (Len(s.entries) \div 2) + 1 \in 1..Len(s.entries)

(***************************************************************************)
(* C16.  add_record touches the last day of the ledger alone: no step      *)
(* shortens the ledger or changes a day other than the last, and a step    *)
(* that appends a day leaves every day there was, the last included, as    *)
(* it was.                                                                 *)
(***************************************************************************)
C16_OnlyLastDayTouched ==
    [][/\ Len(day_summaries') >= Len(day_summaries)
       /\ \A i \in 1..(Len(day_summaries) - 1) : day_summaries'[i] = day_summaries[i]
       /\ Len(day_summaries') > Len(day_summaries) =>
             /\ Len(day_summaries') = Len(day_summaries) + 1
             /\ \A i \in 1..Len(day_summaries) : day_summaries'[i] = day_summaries[i]]_vars

\* Three days, the first of two readings and of the last day's date: a
\* reading of the first day's date arrived again after the day was left.
C16_Witness ==
    /\ Len(day_summaries) = 3
    /\ day_summaries[1].date = day_summaries[3].date
    /\ Len(day_summaries[1].temperature_stats.temperature_entries) = 2
    /\ Len(day_summaries[3].temperature_stats.temperature_entries) = 1

\* The entries of a field of the i-th day of a ledger.
EntriesOf(days, i, field) == StatOf(days[i], field).entries

(***************************************************************************)
(* C17.  Entries are append-only.  No step shortens the ledger; a step     *)
(* leaves the entries of every field of every day as they were, or, for    *)
(* the last day when add_record is called, appends the reading's value at  *)
(* the end; and a call of add_record that returns for a reading of the     *)
(* last day's date appends the reading's value to all four fields.         *)
(***************************************************************************)
C17_EntriesAppendOnly ==
    [][/\ Len(day_summaries') >= Len(day_summaries)
       /\ \A i \in 1..Len(day_summaries) : \A f \in FieldNames :
             \/ EntriesOf(day_summaries', i, f) = EntriesOf(day_summaries, i, f)
             \/ /\ i = Len(day_summaries)
                /\ AddRecordCalled
                /\ EntriesOf(day_summaries', i, f) =
                       Append(EntriesOf(day_summaries, i, f), ValueOf(Arriving, f))
       /\ (/\ AddRecordCalled
           /\ Len(day_summaries) > 0
           /\ day_summaries[Len(day_summaries)].date = Arriving.timestamp
           /\ pc' = "sensor")
          => \A f \in FieldNames :
                EntriesOf(day_summaries', Len(day_summaries), f) =
                    Append(EntriesOf(day_summaries, Len(day_summaries), f),
                           ValueOf(Arriving, f))]_vars

\* A day whose humidity entries are three different values, the largest
\* first and the smallest in the middle.
C17_Witness ==
    /\ Alive
    /\ \E i \in 1..Len(day_summaries) :
          EntriesOf(day_summaries, i, "humidity") = <<F(60), F(40), F(50)>>

\* The ledger add_record builds from the first n of the rows, all parsing.
RECURSIVE LedgerOf(_, _)
LedgerOf(rows, n) ==
    IF n = 0 THEN <<>>
    ELSE add_record(LedgerOf(rows, n - 1), from_csv_record(rows[n])).days

\* The orders in which n rows can arrive.
Orderings(n) == { p \in [1..n -> 1..n] : \A i, j \in 1..n : p[i] = p[j] => i = j }

\* Every cell of the row parses to a number.
Numeric(row) ==
    /\ Parses(row)
    /\ \A cell \in {row.temperature, row.humidity, row.dew_point, row.vpd} :
          cell.kind = "dec"

\* The rows read are two or more readings of one date, all numbers, with
\* temperatures that differ from one another.
OneDayOfDistinctTemperatures ==
    /\ Len(sensor_read) >= 2
    /\ \A i \in 1..Len(sensor_read) : Numeric(sensor_read[i])
    /\ \A i, j \in 1..Len(sensor_read) :
          /\ sensor_read[i].timestamp.ymd = sensor_read[j].timestamp.ymd
          /\ i # j => sensor_read[i].temperature # sensor_read[j].temperature

(***************************************************************************)
(* C18.  A day's summary depends on the order of its readings: whenever    *)
(* the rows read are two or more readings of one date with different       *)
(* temperatures, the same rows in some other order give a day of the same  *)
(* entries, up to order, with another median temperature.                  *)
(***************************************************************************)
C18_OrderDependent ==
    OneDayOfDistinctTemperatures =>
        /\ Len(day_summaries) = 1
        /\ \E p \in Orderings(Len(sensor_read)) :
              \E other \in {LedgerOf([i \in 1..Len(sensor_read) |-> sensor_read[p[i]]],
                                     Len(sensor_read))} :
                  /\ Len(other) = 1
                  /\ \A i \in 1..Len(sensor_read) :
                        EntriesOf(other, 1, "temperature")[i] =
                            EntriesOf(day_summaries, 1, "temperature")[p[i]]
                  /\ other[1].temperature_stats.median_temperature #
                        day_summaries[1].temperature_stats.median_temperature

\* A day of the temperatures 30, 10, 20 in this order: its median is 10,
\* and 20 or 30 in other orders.
C18_Witness ==
    /\ OneDayOfDistinctTemperatures
    /\ Len(day_summaries) = 1
    /\ EntriesOf(day_summaries, 1, "temperature") = <<F(30), F(10), F(20)>>
    /\ day_summaries[1].temperature_stats.median_temperature = F(10)

(***************************************************************************)
(* C19.  The summary line.  Once the sensor loop has ended, main has       *)
(* printed one line with the ledger's string summary: for a ledger that    *)
(* is not empty, the number of its days (which is the number of runs of    *)
(* equal dates read, not the number of readings), the date of its first    *)
(* day and the date of its last day; for an empty ledger the no-data       *)
(* text, and main goes on.                                                 *)
(***************************************************************************)
C19_SummaryLine ==
    /\ pc \in {"start", "events", "sensor"} => stdout = <<>>
    /\ pc \in {"report", "done"} =>
          /\ Len(stdout) = 1
          /\ stdout[1][1] = "day summaries: "
          /\ \A text \in {stdout[1][2]} : \A dates \in {ReadDates} :
                IF Len(day_summaries) > 0
                THEN /\ text = <<Len(day_summaries), " records for date range ",
                                 day_summaries[1].date, " - ",
                                 day_summaries[Len(day_summaries)].date>>
                     /\ text[1] = Len(RunStarts(dates))
                     /\ text[3] = dates[1]
                     /\ text[5] = dates[Len(dates)]
                ELSE text = <<"length: ", 0, ", date range: <na> - <na>">>

\* The line printed for four readings in three days, the first and the
\* last of one date.
C19_Witness ==
    /\ pc = "done"
    /\ Len(sensor_read) = 4
    /\ stdout = << <<"day summaries: ",
                     <<3, " records for date range ", D1, " - ", D1>> >> >>

\* The number of temperature entries of the first n days.
RECURSIVE TotalEntries(_, _)
TotalEntries(days, n) ==
    IF n = 0 THEN 0
    ELSE TotalEntries(days, n - 1) + Len(EntriesOf(days, n, "temperature"))

(***************************************************************************)
(* C20.  Between calls of add_record, for streams in any order of dates:   *)
(* the dates of the ledger are the dates read with every run of equal      *)
(* consecutive dates collapsed to one date; two adjacent days never have   *)
(* one date; the entries of every field of the i-th day are the values of  *)
(* the readings of the i-th run, in input order; the entries of all days   *)
(* are as many as the readings; and the four fields of a day have equally  *)
(* many entries.                                                           *)
(***************************************************************************)
C20_RunsCollapse ==
    Alive =>
        \A readings \in {Readings} : \A dates \in {ReadDates} :
        \A starts \in {RunStarts(dates)} :
            /\ LedgerDates = [run \in 1..Len(starts) |-> dates[starts[run]]]
            /\ \A i \in 1..(Len(day_summaries) - 1) :
                  day_summaries[i].date # day_summaries[i + 1].date
            /\ \A i \in 1..Len(day_summaries) : \A f \in FieldNames :
                  /\ EntriesOf(day_summaries, i, f) =
                        [k \in 1..RunLength(starts, Len(dates), i) |->
                            ValueOf(readings[starts[i] + k - 1], f)]
                  /\ Len(EntriesOf(day_summaries, i, f)) =
                        Len(EntriesOf(day_summaries, i, "temperature"))
            /\ TotalEntries(day_summaries, Len(day_summaries)) = Len(readings)

\* Five readings in an order of dates that is not sorted, in three days of
\* two, one and two readings.
C20_Witness ==
    /\ ReadDates = <<D2, D2, D1, D3, D3>>
    /\ LedgerDates = <<D2, D1, D3>>
    /\ Len(EntriesOf(day_summaries, 1, "vpd")) = 2
    /\ Len(EntriesOf(day_summaries, 2, "vpd")) = 1
    /\ Len(EntriesOf(day_summaries, 3, "vpd")) = 2

====
